---- MODULE Spec2Model ----
(***************************************************************************)
(* CinemaPulse (src/app.py): the review submission workflow, the           *)
(* per-movie and per-user aggregate statistics and user registration,      *)
(* over the three DynamoDB tables users_table, movies_table and            *)
(* reviews_table.                                                          *)
(*                                                                         *)
(* Each Flask request runs on a thread of its own (app.run, threaded by    *)
(* default).  A thread's steps are its DynamoDB calls: the code between    *)
(* two calls touches only locals, so it is folded into the call that       *)
(* follows it.  Every DynamoDB call may raise (ClientError, a connection   *)
(* error): each action takes a `fail` input.  A call that raises is        *)
(* modelled as not having been applied.  Reads are modelled as consistent. *)
(*                                                                         *)
(* Text is a sequence of one-character strings, so that strip(), lower(),  *)
(* len() and int() are computed.  A Decimal with two places (avg_rating)   *)
(* is the integer number of hundredths: 433 is Decimal('4.33').            *)
(***************************************************************************)
EXTENDS Integers, Sequences, FiniteSets, TLC

VARIABLES
    users,      \* users_table: normalized email -> item
    movies,     \* movies_table: movie_id -> item
    reviews,    \* reviews_table: review_id -> item
    th,         \* per request thread: position and locals of its handler
    clock       \* datetime.now(), as the number of timestamps taken so far

vars == <<users, movies, reviews, th, clock>>

tables == <<users, movies, reviews>>

----------------------------------------------------------------------------
(* Bounds *)

NumThreads == 2
MaxSubmissions == 2

Threads == 1..NumThreads

----------------------------------------------------------------------------
(* Text helpers *)

SetMin(S) == CHOOSE x \in S : \A y \in S : x <= y
SetMax(S) == CHOOSE x \in S : \A y \in S : y <= x

\* str.strip()
Strip(s) ==
    LET keep == {i \in 1..Len(s) : s[i] # " "}
    IN  IF keep = {} THEN <<>> ELSE SubSeq(s, SetMin(keep), SetMax(keep))

UpperChars == {"A", "B"}
LowerChars == {"a", "b", "c", "f", "g", "i", "l", "m", "o", "r", "x"}
DigitChars == {"0", "1", "2", "3", "4", "5", "6", "7", "8", "9"}

LowerChar(c) ==
    CASE c = "A" -> "a"
      [] c = "B" -> "b"
      [] OTHER -> c

\* str.lower()
Lower(s) == [i \in 1..Len(s) |-> LowerChar(s[i])]

DigitVal(c) ==
    CASE c = "0" -> 0 [] c = "1" -> 1 [] c = "2" -> 2 [] c = "3" -> 3
      [] c = "4" -> 4 [] c = "5" -> 5 [] c = "6" -> 6 [] c = "7" -> 7
      [] c = "8" -> 8 [] c = "9" -> 9

RECURSIVE DecimalVal(_)
DecimalVal(ds) ==
    IF ds = <<>> THEN 0
    ELSE 10 * DecimalVal(SubSeq(ds, 1, Len(ds) - 1)) + DigitVal(ds[Len(ds)])

\* int(text): surrounding whitespace is ignored, then an optional sign and
\* at least one decimal digit; anything else raises ValueError.
IntOf(raw) ==
    LET s      == Strip(raw)
        signed == s # <<>> /\ s[1] \in {"+", "-"}
        ds     == IF signed THEN Tail(s) ELSE s
    IN  IF ds # <<>> /\ \A i \in 1..Len(ds) : ds[i] \in DigitChars
        THEN [ok |-> TRUE,
              val |-> IF signed /\ s[1] = "-" THEN 0 - DecimalVal(ds)
                      ELSE DecimalVal(ds)]
        ELSE [ok |-> FALSE, val |-> 0]

\* is_valid_email: ^[a-zA-Z0-9._%+-]+@[a-zA-Z0-9.-]+\.[a-zA-Z]{2,}$
Letters == UpperChars \cup LowerChars
LocalChars == Letters \cup DigitChars \cup {".", "_", "%", "+", "-"}
DomainChars == Letters \cup DigitChars \cup {".", "-"}

is_valid_email(e) ==
    \E i \in 1..Len(e), j \in 1..Len(e) :
        /\ 1 < i /\ i + 1 < j /\ j + 2 <= Len(e)
        /\ e[i] = "@" /\ e[j] = "."
        /\ \A k \in 1..(i - 1) : e[k] \in LocalChars
        /\ \A k \in (i + 1)..(j - 1) : e[k] \in DomainChars
        /\ \A k \in (j + 1)..Len(e) : e[k] \in Letters

\* generate_password_hash: an opaque credential derived from the password
hash_password(p) == <<"h", "$">> \o p

\* round(sum / n, 2) on Decimal operands (ROUND_HALF_EVEN), in hundredths
Round2(sum, n) ==
    LET q == (100 * sum) \div n
        r == (100 * sum) % n
    IN  IF 2 * r < n THEN q
        ELSE IF 2 * r > n THEN q + 1
        ELSE IF q % 2 = 0 THEN q ELSE q + 1

RECURSIVE SumRatings(_)
SumRatings(rs) ==
    IF rs = {} THEN 0
    ELSE LET r == CHOOSE x \in rs : TRUE
         IN  r.rating + SumRatings(rs \ {r})

----------------------------------------------------------------------------
(* The catalog and the request inputs *)

M001 == <<"m", "o", "v", "i", "e", "_", "0", "0", "1">>
M002 == <<"m", "o", "v", "i", "e", "_", "0", "0", "2">>
M003 == <<"m", "o", "v", "i", "e", "_", "0", "0", "3">>
M004 == <<"m", "o", "v", "i", "e", "_", "0", "0", "4">>
M005 == <<"m", "o", "v", "i", "e", "_", "0", "0", "5">>
M999 == <<"m", "o", "v", "i", "e", "_", "9", "9", "9">>

\* MOVIES_INITIAL_DATA (its first five entries)
MOVIES_INITIAL_DATA ==
    {[movie_id |-> M001, title |-> "The Quantum Paradox", genre |-> "Sci-Fi"],
     [movie_id |-> M002, title |-> "Echoes of Tomorrow", genre |-> "Drama"],
     [movie_id |-> M003, title |-> "Shadow Protocol", genre |-> "Action"],
     [movie_id |-> M004, title |-> "The Last Symphony", genre |-> "Drama"],
     [movie_id |-> M005, title |-> "Neon City", genre |-> "Sci-Fi"]}

MovieIds == {m.movie_id : m \in MOVIES_INITIAL_DATA}

\* Items of movies_table that were there before this process started and
\* that initialize_movies therefore leaves as they are: their active flag
\* may be False (get_all_movies filters on it).
RetirableIds == {M002}

Text9 == <<"g", "o", "o", "d", " ", "f", "i", "l", "m">>
Text10 == <<"g", "r", "e", "a", "t", " ", "f", "i", "l", "m">>

EmailA == <<"a", "@", "b", ".", "c", "c">>
EmailAUpper == <<"A", "@", "b", ".", "c", "c">>
EmailBad == <<"a", "@", "b">>

NameAl == <<"A", "l">>
NameShort == <<" ", "A", " ">>

Pw5 == <<"1", "2", "3", "4", "5">>
Pw6 == <<"1", "2", "3", "4", "5", "6">>

\* request.form of POST /submit-feedback
AllForms ==
    [movie_id : {<<>>, M001, <<" ">> \o M002, M999},
     feedback : {<<>>, <<" ", " ">>, Text9, <<" ">> \o Text9 \o <<" ">>, Text10},
     rating   : {<<>>, <<" ">>, <<"x">>, <<"4", ".", "5">>, <<"0">>, <<"6">>,
                 <<"-", "1">>, <<"1", "0">>, <<"1">>, <<" ", "4">>, <<"+", "5">>}]

\* The forms the concurrent specification draws from
CoreForms ==
    [movie_id : {M001, <<" ">> \o M002, M999},
     feedback : {Text10},
     rating   : {<<" ", "4">>, <<"+", "5">>, <<"6">>}]

\* request.form of POST /register
AllRegForms ==
    [email : {EmailA, EmailAUpper, EmailBad},
     password : {Pw5, Pw6},
     name : {NameAl, NameShort}]

CoreRegForms ==
    [email : {EmailA, EmailAUpper},
     password : {Pw6},
     name : {NameAl}]

----------------------------------------------------------------------------
(* flash() messages *)

FlashLogin == "Please login to submit feedback!"
FlashRequired == "All fields are required!"
FlashRating == "Invalid rating value!"
FlashFeedback == "Feedback must be at least 10 characters long!"
FlashMovie == "Invalid movie!"
FlashThanks == "Thank you for your feedback!"
FlashFailed == "Failed to submit feedback. Please try again."
FlashRegistered == "Registration successful! Please login."
MsgEmail == "Invalid email format"
MsgPassword == "Password must be at least 6 characters"
MsgName == "Name must be at least 2 characters"
MsgExists == "User already exists"
MsgRegFailed == "Registration failed. Please try again."
MsgNotAuthenticated == "Not authenticated"

----------------------------------------------------------------------------
(* State *)

\* A thread that serves no request
Idle ==
    [pc |-> "idle", op |-> "", email |-> <<>>, name |-> <<>>, movie_id |-> <<>>,
     rating_raw |-> <<>>, rating |-> 0, feedback |-> <<>>, ts |-> 0, rid |-> 0,
     total |-> 0, avg |-> 0, last |-> 0,
     mres |-> "none", ures |-> "none", pw |-> <<>>, flash |-> "",
     limit |-> 0, recs |-> <<>>, failed |-> <<>>]

\* The response of a request that ended in the route itself
Responded(op, msg) == [Idle EXCEPT !.pc = "done", !.op = op, !.flash = msg]

\* The same, of submit_feedback_route once it has read the form into its
\* locals movie_id, feedback_text and rating_raw
RespondedForm(msg, movie_id, feedback_text, rating_raw) ==
    [Responded("submit", msg) EXCEPT !.movie_id = movie_id,
                                     !.feedback = feedback_text,
                                     !.rating_raw = rating_raw]

\* initialize_movies: the item put for a seed movie that is not in the table
NewMovieItem(m) ==
    [title |-> m.title, genre |-> m.genre, total_reviews |-> 0,
     avg_rating |-> 0, active |-> TRUE, last_updated |-> 0]

Init ==
    /\ users = <<>>
    /\ reviews = <<>>
    /\ \E retired \in SUBSET RetirableIds :
          movies = [id \in MovieIds |->
                      LET m == CHOOSE x \in MOVIES_INITIAL_DATA : x.movie_id = id
                      IN  [NewMovieItem(m) EXCEPT !.active = id \notin retired]]
    /\ th = [t \in Threads |-> Idle]
    /\ clock = 0

\* session['user_email'], session['user_name'] as login() set them; NoSession
\* is a request without a login.
NoSession == [email |-> <<>>, name |-> <<>>]
Sessions ==
    {NoSession} \cup {[email |-> e, name |-> users[e].name] : e \in DOMAIN users}

----------------------------------------------------------------------------
(* Table reads *)

\* get_movie_by_id: the item, or None (also when get_item raises)
get_movie_by_id(movie_id, fail) ==
    IF ~fail /\ movie_id \in DOMAIN movies
    THEN [found |-> TRUE, item |-> movies[movie_id]]
    ELSE [found |-> FALSE, item |-> <<>>]

\* reviews_table.query(IndexName='MovieIndex', movie_id = id)
QueryMovieIndex(movie_id) ==
    {reviews[r] : r \in {x \in DOMAIN reviews : reviews[x].movie_id = movie_id}}

\* reviews_table.query(IndexName='UserIndex', user_email = email)
QueryUserIndex(email) ==
    {reviews[r] : r \in {x \in DOMAIN reviews : reviews[x].user_email = email}}

\* Mutant: every call returns the same identifier
uuid4Repeats(n) == 1

\* The n-th identifier uuid.uuid4() returns: no two are equal
uuid4(n) == n

----------------------------------------------------------------------------
(* POST /submit-feedback: submit_feedback_route up to its call of
   submit_review *)

\* Mutant: the lower bound of the range is not checked
RatingInRangeUpperOnly(rating) == ~(rating > 5)

RatingInRange(rating) == ~(rating < 1 \/ rating > 5)

\* Mutant: the length limit is off by one
FeedbackLongEnoughOffByOne(feedback_text) == ~(Len(feedback_text) < 9)

FeedbackLongEnough(feedback_text) == ~(Len(feedback_text) < 10)

\* Mutant: the length of the feedback is checked before the rating
ValidateFormFeedbackFirst(session, movie_id, feedback_text, rating_raw) ==
    IF session.email = <<>> THEN FlashLogin
    ELSE IF movie_id = <<>> \/ feedback_text = <<>> \/ rating_raw = <<>>
    THEN FlashRequired
    ELSE IF ~FeedbackLongEnough(feedback_text) THEN FlashFeedback
    ELSE IF ~IntOf(rating_raw).ok \/ ~RatingInRange(IntOf(rating_raw).val)
    THEN FlashRating
    ELSE "ok"

\* The checks of the route that read no table, in the order of the code;
\* "ok" when all pass.
ValidateForm(session, movie_id, feedback_text, rating_raw) ==
    IF session.email = <<>> THEN FlashLogin
    ELSE IF movie_id = <<>> \/ feedback_text = <<>> \/ rating_raw = <<>>
    THEN FlashRequired
    ELSE IF ~IntOf(rating_raw).ok \/ ~RatingInRange(IntOf(rating_raw).val)
    THEN FlashRating
    ELSE IF ~FeedbackLongEnough(feedback_text) THEN FlashFeedback
    ELSE "ok"

\* "Verify movie exists"
MovieAccepted(movie) == movie.found

SubmitFeedbackRoute(t, session, form, fail) ==
    LET movie_id      == Strip(form.movie_id)
        feedback_text == Strip(form.feedback)
        rating_raw    == form.rating
        verdict == ValidateForm(session, movie_id, feedback_text, rating_raw)
    IN  /\ th[t].pc = "idle"
        /\ clock < MaxSubmissions
        /\ IF verdict = FlashLogin
           THEN /\ th' = [th EXCEPT ![t] = Responded("submit", FlashLogin)]
                /\ UNCHANGED <<tables, clock>>
           ELSE IF verdict # "ok"
           THEN /\ th' = [th EXCEPT ![t] =
                            RespondedForm(verdict, movie_id, feedback_text, rating_raw)]
                /\ UNCHANGED <<tables, clock>>
           ELSE IF ~MovieAccepted(get_movie_by_id(movie_id, fail))
           THEN /\ th' = [th EXCEPT ![t] =
                            RespondedForm(FlashMovie, movie_id, feedback_text, rating_raw)]
                /\ UNCHANGED <<tables, clock>>
           ELSE \* submit_review(name, email, movie_id, rating, feedback_text):
                \* timestamp and review_id
                /\ clock' = clock + 1
                /\ th' = [th EXCEPT ![t] =
                            [Idle EXCEPT !.pc = "put",
                                         !.op = "submit",
                                         !.email = session.email,
                                         !.name = session.name,
                                         !.movie_id = movie_id,
                                         !.rating_raw = rating_raw,
                                         !.rating = IntOf(rating_raw).val,
                                         !.feedback = feedback_text,
                                         !.ts = clock + 1,
                                         !.rid = uuid4(clock + 1)]]
                /\ UNCHANGED tables

----------------------------------------------------------------------------
(* submit_review *)

ReviewItem(l) ==
    [review_id |-> l.rid, user_email |-> l.email, movie_id |-> l.movie_id,
     name |-> l.name,
     rating |-> l.rating, feedback |-> l.feedback, created_at |-> l.ts]

\* Mutant: the failure of put_item is swallowed and the statistics are updated
PutReviewFailedSwallowed(t) ==
    /\ th' = [th EXCEPT ![t].pc = "mquery"]
    /\ UNCHANGED <<tables, clock>>

\* put_item raised: the except clause of submit_review returns False and the
\* route flashes the failure
PutReviewFailed(t) ==
    /\ th' = [th EXCEPT ![t] = [@ EXCEPT !.pc = "done", !.flash = FlashFailed]]
    /\ UNCHANGED <<tables, clock>>

PutReview(t, fail) ==
    /\ th[t].pc = "put"
    /\ IF fail
       THEN PutReviewFailed(t)
       ELSE /\ reviews' = (th[t].rid :> ReviewItem(th[t])) @@ reviews
            /\ th' = [th EXCEPT ![t].pc = "mquery"]
            /\ UNCHANGED <<users, movies, clock>>

----------------------------------------------------------------------------
(* update_movie_stats *)

\* Mutant: a failed update of the statistics takes the review back
MovieStatsFailedRollback(t) ==
    /\ th' = [th EXCEPT ![t] = [@ EXCEPT !.pc = "uquery", !.mres = "False",
                                         !.total = 0, !.avg = 0]]
    /\ reviews' = [r \in DOMAIN reviews \ {th[t].rid} |-> reviews[r]]
    /\ UNCHANGED <<users, movies, clock>>

\* The except clause of update_movie_stats: it returns False, and submit_review
\* goes on to update_user_stats
MovieStatsFailed(t) ==
    /\ th' = [th EXCEPT ![t] = [@ EXCEPT !.pc = "uquery", !.mres = "False",
                                         !.total = 0, !.avg = 0]]
    /\ UNCHANGED <<tables, clock>>

\* Mutant: the average is cut off after two places instead of rounded
AvgOfTruncated(rs) ==
    IF Cardinality(rs) > 0 THEN (100 * SumRatings(rs)) \div Cardinality(rs) ELSE 0

\* avg_rating as written to the table: Decimal(str(round(avg_rating, 2)))
AvgOf(rs) == IF Cardinality(rs) > 0 THEN Round2(SumRatings(rs), Cardinality(rs)) ELSE 0

MovieQuery(t, fail) ==
    /\ th[t].pc = "mquery"
    /\ IF fail
       THEN MovieStatsFailed(t)
       ELSE LET rs == QueryMovieIndex(th[t].movie_id)
            IN  /\ th' = [th EXCEPT ![t] = [@ EXCEPT !.pc = "mupdate",
                                                     !.total = Cardinality(rs),
                                                     !.avg = AvgOf(rs)]]
                /\ UNCHANGED <<tables, clock>>

\* Mutant: the item is replaced by one that holds the aggregate fields only
MovieItemReplaced(item, total_reviews, avg_rating, now) ==
    [title |-> "", genre |-> "", total_reviews |-> total_reviews,
     avg_rating |-> avg_rating, active |-> TRUE, last_updated |-> now]

\* movies_table.update_item: SET total_reviews, avg_rating, last_updated
MovieItemUpdated(item, total_reviews, avg_rating, now) ==
    [item EXCEPT !.total_reviews = total_reviews,
                 !.avg_rating = avg_rating,
                 !.last_updated = now]

MovieUpdate(t, fail) ==
    /\ th[t].pc = "mupdate"
    /\ IF fail
       THEN MovieStatsFailed(t)
       ELSE /\ movies' = [movies EXCEPT ![th[t].movie_id] =
                            MovieItemUpdated(@, th[t].total, th[t].avg, clock)]
            /\ th' = [th EXCEPT ![t] = [@ EXCEPT !.pc = "uquery", !.mres = "True",
                                                 !.total = 0, !.avg = 0]]
            /\ UNCHANGED <<users, reviews, clock>>

----------------------------------------------------------------------------
(* update_user_stats, and the return of submit_review to the route *)

\* submit_review returns True whatever update_movie_stats and
\* update_user_stats returned; the route flashes its thanks.
UserStatsDone(t, result) ==
    th' = [th EXCEPT ![t] = [@ EXCEPT !.pc = "done", !.ures = result,
                                      !.total = 0, !.avg = 0, !.last = 0,
                                      !.flash = FlashThanks]]

UserQuery(t, fail) ==
    /\ th[t].pc = "uquery"
    /\ IF fail
       THEN UserStatsDone(t, "False") /\ UNCHANGED <<tables, clock>>
       ELSE LET rs == QueryUserIndex(th[t].email)
            IN  /\ th' = [th EXCEPT ![t] =
                            [@ EXCEPT !.pc = "uupdate",
                                      !.total = Cardinality(rs),
                                      !.avg = AvgOf(rs),
                                      !.last = IF rs = {} THEN 0
                                               ELSE SetMax({r.created_at : r \in rs})]]
                /\ UNCHANGED <<tables, clock>>

\* users_table.update_item: SET total_reviews, avg_rating, last_review_date
UserItemUpdated(item, total_reviews, avg_rating, last_review) ==
    [item EXCEPT !.total_reviews = total_reviews,
                 !.avg_rating = avg_rating,
                 !.last_review_date = last_review]

UserUpdate(t, fail) ==
    /\ th[t].pc = "uupdate"
    /\ IF fail
       THEN UserStatsDone(t, "False") /\ UNCHANGED <<tables, clock>>
       ELSE /\ users' = [users EXCEPT ![th[t].email] =
                           UserItemUpdated(@, th[t].total, th[t].avg, th[t].last)]
            /\ UserStatsDone(t, "True")
            /\ UNCHANGED <<movies, reviews, clock>>

----------------------------------------------------------------------------
(* POST /register: register() and register_user *)

NewUserItem(name, password_hash, timestamp) ==
    [name |-> name, password_hash |-> password_hash, created_at |-> timestamp,
     total_reviews |-> 0, avg_rating |-> 0, last_review_date |-> 0,
     is_active |-> TRUE]

\* The checks of register_user that read no table; "ok" when all pass.
ValidateRegistration(email, password, name) ==
    IF ~is_valid_email(email) THEN MsgEmail
    ELSE IF Len(password) < 6 THEN MsgPassword
    ELSE IF Len(Strip(name)) < 2 THEN MsgName
    ELSE "ok"

RegisterRoute(t, form, fail) ==
    LET email    == Lower(Strip(form.email))
        password == form.password
        name     == Strip(form.name)
        verdict  == ValidateRegistration(email, password, name)
    IN  /\ th[t].pc = "idle"
        /\ UNCHANGED <<tables, clock>>
        /\ IF verdict # "ok"
           THEN th' = [th EXCEPT ![t] = Responded("register", verdict)]
           ELSE IF fail
           THEN th' = [th EXCEPT ![t] = Responded("register", MsgRegFailed)]
           ELSE IF Lower(Strip(email)) \in DOMAIN users
           THEN th' = [th EXCEPT ![t] = Responded("register", MsgExists)]
           ELSE th' = [th EXCEPT ![t] =
                         [Idle EXCEPT !.pc = "reg_put",
                                      !.op = "register",
                                      !.email = Lower(Strip(email)),
                                      !.name = Strip(name),
                                      !.pw = hash_password(password),
                                      !.ts = clock]]

RegisterPut(t, fail) ==
    /\ th[t].pc = "reg_put"
    /\ IF fail
       THEN /\ th' = [th EXCEPT ![t] = Responded("register", MsgRegFailed)]
            /\ UNCHANGED <<tables, clock>>
       ELSE /\ users' = (th[t].email :> NewUserItem(th[t].name, th[t].pw, th[t].ts))
                           @@ users
            /\ th' = [th EXCEPT ![t] = Responded("register", FlashRegistered)]
            /\ UNCHANGED <<movies, reviews, clock>>

\* The response is sent and the thread is free for the next request
Finish(t) ==
    /\ th[t].pc = "done"
    /\ th' = [th EXCEPT ![t] = Idle]
    /\ UNCHANGED <<tables, clock>>

----------------------------------------------------------------------------
(* Specifications *)

Submit(t, Forms) ==
    \E session \in Sessions, form \in Forms, fail \in BOOLEAN :
        SubmitFeedbackRoute(t, session, form, fail)

Register(t, Forms) ==
    \E form \in Forms, fail \in BOOLEAN : RegisterRoute(t, form, fail)

Step(t) ==
    \E fail \in BOOLEAN :
        \/ PutReview(t, fail)
        \/ MovieQuery(t, fail)
        \/ MovieUpdate(t, fail)
        \/ UserQuery(t, fail)
        \/ UserUpdate(t, fail)
        \/ RegisterPut(t, fail)

\* Requests served concurrently, one per thread
Next ==
    \E t \in Threads :
        \/ Submit(t, CoreForms)
        \/ Register(t, CoreRegForms)
        \/ Step(t)
        \/ Finish(t)

Spec == Init /\ [][Next]_vars

\* Requests served one at a time (thread 1 alone), over every form
NextOneThread ==
    \/ Submit(1, AllForms)
    \/ Register(1, AllRegForms)
    \/ Step(1)
    \/ Finish(1)

SpecOneThread == Init /\ [][NextOneThread]_vars

----------------------------------------------------------------------------
(* Requests served one at a time over tables that already hold the reviews of
   an earlier run of the application (DynamoDB keeps them across restarts) *)

EmailB == <<"b", "@", "b", ".", "c", "c">>
NameBo == <<"B", "o">>

\* The ratings of the reviews user b@b.cc has stored for movie_001
StoredRatings == {<<>>, <<5, 5>>, <<5, 3, 4>>}

\* The i-th stored review; its identifier is none that uuid4 returns later
StoredReview(i, rating) ==
    [review_id |-> 0 - i, user_email |-> EmailB, movie_id |-> M001,
     name |-> NameBo, rating |-> rating, feedback |-> Text10, created_at |-> 0]

\* The aggregates are those of the stored reviews, or, stale, still those of
\* a record without reviews (a statistics update that failed).
InitHistory ==
    \E rs \in StoredRatings, stale \in BOOLEAN :
        LET stored == {StoredReview(i, rs[i]) : i \in 1..Len(rs)}
            total  == IF stale THEN 0 ELSE Cardinality(stored)
            avg    == IF stale THEN 0 ELSE AvgOf(stored)
        IN  /\ reviews = [r \in {0 - i : i \in 1..Len(rs)} |->
                            StoredReview(0 - r, rs[0 - r])]
            /\ movies = [id \in MovieIds |->
                           LET m == CHOOSE x \in MOVIES_INITIAL_DATA : x.movie_id = id
                           IN  IF id = M001
                               THEN MovieItemUpdated(NewMovieItem(m), total, avg, 0)
                               ELSE NewMovieItem(m)]
            /\ users = (EmailB :>
                          UserItemUpdated(NewUserItem(NameBo, hash_password(Pw6), 0),
                                          total, avg, 0))
            /\ th = [t \in Threads |-> Idle]
            /\ clock = 0

HistoryForms ==
    [movie_id : {M001, M002},
     feedback : {Text10},
     rating   : {<<"2">>, <<"4">>}]

NextHistory ==
    \/ Submit(1, HistoryForms)
    \/ Register(1, CoreRegForms)
    \/ Step(1)
    \/ Finish(1)

SpecHistory == InitHistory /\ [][NextHistory]_vars

----------------------------------------------------------------------------
(* GET /api/recommendations: get_all_movies, get_user_reviews and
   get_recommendations.  The request only reads; in a specification without
   writers its reads are taken in one step. *)

\* list[:n]
Take(s, n) == SubSeq(s, 1, IF n < Len(s) THEN n ELSE Len(s))

\* The item of a movie as get_all_movies returns it (the fields that
\* get_recommendations reads)
MovieOf(id) ==
    [movie_id |-> id, genre |-> movies[id].genre,
     avg_rating |-> movies[id].avg_rating]

\* movies_table.scan(FilterExpression=Attr('active').eq(True)): the items in
\* the order the scan returns them; [] when the scan raises
get_all_movies(order, fail) ==
    IF fail THEN <<>>
    ELSE LET IsActive(id) == movies[id].active
             ids == SelectSeq(order, IsActive)
         IN  [i \in 1..Len(ids) |-> MovieOf(ids[i])]

\* get_user_reviews: the reviews of UserIndex, each with the genre of its
\* movie when get_movie_by_id returns the movie (otherwise the review has no
\* movie_genre and get_recommendations reads 'Unknown'); [] when the query
\* raises.  get_recommendations does not read the order of the reviews.
get_user_reviews(email, fail, lookup_fail) ==
    IF fail THEN {}
    ELSE {[review_id |-> r.review_id, movie_id |-> r.movie_id, rating |-> r.rating,
           movie_genre |->
               LET movie == get_movie_by_id(r.movie_id, r.movie_id \in lookup_fail)
               IN  IF movie.found THEN movie.item.genre ELSE "Unknown"]
          : r \in QueryUserIndex(email)}

\* sorted(ms, key=avg_rating, reverse=True): stable, so movies of equal
\* rating keep the order they had
RECURSIVE SortedByRating(_)
SortedByRating(ms) ==
    IF ms = <<>> THEN <<>>
    ELSE LET rest == SortedByRating(SubSeq(ms, 1, Len(ms) - 1))
             x    == ms[Len(ms)]
             k    == Cardinality({i \in 1..Len(rest) :
                                     rest[i].avg_rating >= x.avg_rating})
         IN  SubSeq(rest, 1, k) \o <<x>> \o SubSeq(rest, k + 1, Len(rest))

\* avg = sum(ratings) / len(ratings); avg >= 4
IsFavorite(ratings) == SumRatings(ratings) >= 4 * Cardinality(ratings)

\* get_recommendations, from the two lists it has fetched
get_recommendations(all_movies, user_reviews, limit) ==
    IF user_reviews = {}
    THEN Take(SortedByRating(all_movies), limit)
    ELSE LET rated_movie_ids == {r.movie_id : r \in user_reviews}
             genre_ratings(g) == {r \in user_reviews : r.movie_genre = g}
             favorite_genres ==
                 {g \in {r.movie_genre : r \in user_reviews} :
                     IsFavorite(genre_ratings(g))}
             Candidate(m) ==
                 m.movie_id \notin rated_movie_ids /\ m.genre \in favorite_genres
             recommendations == SortedByRating(SelectSeq(all_movies, Candidate))
             Other(m) ==
                 /\ m.movie_id \notin rated_movie_ids
                 /\ \A i \in 1..Len(recommendations) : recommendations[i] # m
             other_movies == SortedByRating(SelectSeq(all_movies, Other))
         IN  IF Len(recommendations) < limit
             THEN Take(recommendations
                          \o Take(other_movies, limit - Len(recommendations)),
                       limit)
             ELSE Take(recommendations, limit)

\* Mutant: the request stamps the record of the user it serves
RecommendationWritesStamp(email) ==
    /\ users' = [users EXCEPT ![email].last_review_date = 0 - 1]
    /\ UNCHANGED <<movies, reviews, clock>>

\* What the request writes: nothing (scan, query and get_item only)
RecommendationWrites(email) == UNCHANGED <<tables, clock>>

\* api_recommendations.  `failed` names the calls that raise: the scan, the
\* query, and the get_item of the movies in lookup.
ApiRecommendations(t, session, limit, order, failed) ==
    /\ th[t].pc = "idle"
    /\ IF session.email = <<>>
       THEN /\ th' = [th EXCEPT ![t] = Responded("recommend", MsgNotAuthenticated)]
            /\ UNCHANGED <<tables, clock>>
       ELSE LET all_movies   == get_all_movies(order, failed.scan)
                user_reviews == get_user_reviews(session.email, failed.query,
                                                 failed.lookup)
                result == get_recommendations(all_movies, user_reviews, limit)
            IN  /\ th' = [th EXCEPT ![t] =
                            [Responded("recommend", "success") EXCEPT
                                !.email = session.email,
                                !.limit = limit,
                                !.failed = failed,
                                !.recs = [i \in 1..Len(result) |-> result[i].movie_id]]]
                /\ RecommendationWrites(session.email)

\* The movies the stored reviews are about, and who wrote them
RatedByA == {M001, M002, M005}
RatedByB == {M003, M004, M005}

\* The number a movie_id ends in
MovieNo(id) == DigitVal(id[Len(id)])

StoredRecommendReview(email, name, id, rating) ==
    [review_id |-> 0 - (IF email = EmailA THEN 10 ELSE 20) - MovieNo(id),
     user_email |-> email, movie_id |-> id, name |-> name, rating |-> rating,
     feedback |-> Text10, created_at |-> 0]

\* Tables as earlier submissions of a@b.cc and b@b.cc have left them: a
\* rating 0 stands for a movie the user has not reviewed.  The aggregates are
\* those of the stored reviews.
InitRecommend ==
    \E a1 \in {0, 3, 5}, a2 \in {0, 4}, a5 \in {0, 3},
       b \in [RatedByB -> {3, 5}], retired \in SUBSET RetirableIds :
        LET a == (M001 :> a1) @@ (M002 :> a2) @@ (M005 :> a5)
            stored ==
                {StoredRecommendReview(EmailA, NameAl, id, a[id]) :
                    id \in {x \in RatedByA : a[x] > 0}}
                \cup {StoredRecommendReview(EmailB, NameBo, id, b[id]) :
                        id \in RatedByB}
            of_movie(id) == {r \in stored : r.movie_id = id}
            of_user(e) == {r \in stored : r.user_email = e}
        IN  /\ reviews = [rid \in {r.review_id : r \in stored} |->
                            CHOOSE r \in stored : r.review_id = rid]
            /\ movies = [id \in MovieIds |->
                           LET m == CHOOSE x \in MOVIES_INITIAL_DATA : x.movie_id = id
                           IN  MovieItemUpdated(
                                   [NewMovieItem(m) EXCEPT !.active = id \notin retired],
                                   Cardinality(of_movie(id)), AvgOf(of_movie(id)), 0)]
            /\ users = (EmailA :> UserItemUpdated(
                                      NewUserItem(NameAl, hash_password(Pw6), 0),
                                      Cardinality(of_user(EmailA)),
                                      AvgOf(of_user(EmailA)), 0))
                       @@ (EmailB :> UserItemUpdated(
                                      NewUserItem(NameBo, hash_password(Pw6), 0),
                                      Cardinality(of_user(EmailB)),
                                      AvgOf(of_user(EmailB)), 0))
            /\ th = [t \in Threads |-> Idle]
            /\ clock = 0

\* limit, 5 unless the caller passes another one
DefaultLimit == 5
Limits == {1, 3, DefaultLimit}

\* The orders in which a scan may return the items of movies_table: DynamoDB
\* promises none.  Taken here: by movie_id ascending and descending, and the
\* rotations of both.
ScanAscending == <<M001, M002, M003, M004, M005>>
ScanDescending == <<M005, M004, M003, M002, M001>>
Rotated(s, k) == SubSeq(s, k + 1, Len(s)) \o SubSeq(s, 1, k)
ScanOrders ==
    {Rotated(s, k) : s \in {ScanAscending, ScanDescending},
                     k \in 0..(Cardinality(MovieIds) - 1)}

\* At most one of the calls of a request raises
ReadFailures ==
    {[scan |-> FALSE, query |-> FALSE, lookup |-> {}],
     [scan |-> TRUE, query |-> FALSE, lookup |-> {}],
     [scan |-> FALSE, query |-> TRUE, lookup |-> {}],
     [scan |-> FALSE, query |-> FALSE, lookup |-> {M001}]}

NoFailure == [scan |-> FALSE, query |-> FALSE, lookup |-> {}]

NextRecommend ==
    \/ \E session \in Sessions, limit \in Limits, order \in ScanOrders,
          failed \in ReadFailures :
            ApiRecommendations(1, session, limit, order, failed)
    \/ Finish(1)

SpecRecommend == InitRecommend /\ [][NextRecommend]_vars

\* Requests for recommendations on both threads, over tables that no request
\* changes.  The scan is taken to return the items in the same order every
\* time; a request is sent with the default limit.
TwiceFailures ==
    {NoFailure, [scan |-> FALSE, query |-> TRUE, lookup |-> {}]}

NextRecommendTwice ==
    \E t \in Threads :
        \/ \E session \in Sessions, failed \in TwiceFailures :
              ApiRecommendations(t, session, DefaultLimit, ScanAscending, failed)
        \/ Finish(t)

SpecRecommendTwice == InitRecommend /\ [][NextRecommendTwice]_vars

----------------------------------------------------------------------------
(* Registrations served concurrently, one per thread.  Every form is for the
   one email a@b.cc, written in lower or in upper case, under two names and
   two passwords. *)

PwOther == <<"6", "5", "4", "3", "2", "1">>

RaceRegForms ==
    [email : {EmailA, EmailAUpper},
     password : {Pw6, PwOther},
     name : {NameAl, NameBo}]

NextRegister ==
    \E t \in Threads :
        \/ Register(t, RaceRegForms)
        \/ \E fail \in BOOLEAN : RegisterPut(t, fail)
        \/ Finish(t)

SpecRegister == Init /\ [][NextRegister]_vars

----------------------------------------------------------------------------
(* Properties *)

SubmitThreads ==
    {t \in Threads : th[t].pc = "done" /\ th[t].flash = FlashThanks}

\* Every submission accepted so far has returned, and each with its review
\* written and both of its statistics updates reporting success
AllSubmissionsReturnedOK ==
    Cardinality({t \in SubmitThreads :
                    th[t].mres = "True" /\ th[t].ures = "True"}) = clock

\* |avg - sum/n| <= 1e-9, avg in hundredths: |avg*n - 100*sum| / (100*n) <= 1e-9
WithinTolerance(avg, rs) ==
    LET n == Cardinality(rs)
        d == avg * n - 100 * SumRatings(rs)
    IN  IF n = 0 THEN avg = 0
        ELSE (IF d < 0 THEN 0 - d ELSE d) * 10000000 <= n

\* C1: whenever all submissions so far have returned successfully, every
\* movie's avg_rating is the mean of the ratings of the stored reviews of that
\* movie (within 1e-9) and its total_reviews is their number.
C1_MovieAggregatesExact ==
    AllSubmissionsReturnedOK =>
        \A id \in DOMAIN movies :
            /\ movies[id].total_reviews = Cardinality(QueryMovieIndex(id))
            /\ WithinTolerance(movies[id].avg_rating, QueryMovieIndex(id))

\* C2: when the only submissions so far are one per thread, all for the same
\* movie, and all have returned success with their movie update written,
\* that movie's total_reviews is their number and its avg_rating the
\* (two-place) average of their ratings.
C2_NoLostUpdate ==
    \A id \in DOMAIN movies :
        (/\ clock = NumThreads
         /\ \A t \in Threads :
                t \in SubmitThreads /\ th[t].movie_id = id /\ th[t].mres = "True")
        => /\ movies[id].total_reviews = NumThreads
           /\ movies[id].avg_rating = AvgOf({ReviewItem(th[t]) : t \in Threads})

\* C3: no two submissions are at once between their query of the reviews of a
\* key and their update of that key's aggregate.
C3_OneRecomputationPerKey ==
    \A t1, t2 \in Threads :
        t1 # t2 =>
            /\ ~(/\ th[t1].pc = "mupdate" /\ th[t2].pc = "mupdate"
                 /\ th[t1].movie_id = th[t2].movie_id)
            /\ ~(/\ th[t1].pc = "uupdate" /\ th[t2].pc = "uupdate"
                 /\ th[t1].email = th[t2].email)

\* C4: whenever all submissions so far have returned successfully, every
\* user's avg_rating is the mean rating of the stored reviews of that user
\* (0 without reviews) and total_reviews is their number.
C4_UserAggregatesExact ==
    AllSubmissionsReturnedOK =>
        \A e \in DOMAIN users :
            /\ users[e].total_reviews = Cardinality(QueryUserIndex(e))
            /\ WithinTolerance(users[e].avg_rating, QueryUserIndex(e))

\* Thread t takes the step of submit_feedback_route that receives a request
Received(t) == th[t].pc = "idle" /\ th'[t].op = "submit"

\* The request ends in that step, refused, with no table changed
Rejected(t) == th'[t].pc = "done" /\ th'[t].flash # FlashThanks /\ UNCHANGED tables

IsRatingOneToFive(raw) == IntOf(raw).ok /\ IntOf(raw).val \in 1..5

\* C5: a submission whose rating is not an integer in 1..5 is rejected in the
\* step that receives it: nothing is stored, no aggregate changes, and the
\* request ends there.
C5_BadRatingRejected ==
    [][\A t \in Threads :
          (Received(t) /\ ~IsRatingOneToFive(th'[t].rating_raw)) => Rejected(t)]_vars

C5_Witness ==
    \E t \in Threads :
        /\ th[t].pc = "done" /\ th[t].flash = FlashRating
        /\ IntOf(th[t].rating_raw).ok /\ IntOf(th[t].rating_raw).val < 1

\* C6: a submission whose feedback text has fewer than 10 characters is
\* rejected in the step that receives it, with no table changed.
C6_ShortFeedbackRejected ==
    [][\A t \in Threads :
          (Received(t) /\ Len(th'[t].feedback) < 10) => Rejected(t)]_vars

C6_Witness ==
    \E t \in Threads :
        /\ th[t].pc = "done" /\ th[t].flash = FlashFeedback
        /\ Len(th[t].feedback) = 9

\* The request carries a login session, so that the route reads the form
LoggedIn(t) == th'[t].flash # FlashLogin

\* C7: a submission, valid otherwise, whose movie_id names no movie or a movie
\* whose active flag is false is rejected as an invalid movie, with no table
\* changed.
C7_UnknownOrInactiveRejected ==
    [][\A t \in Threads :
          LET id == th'[t].movie_id
          IN  (/\ Received(t) /\ LoggedIn(t)
               /\ IsRatingOneToFive(th'[t].rating_raw)
               /\ Len(th'[t].feedback) >= 10
               /\ id # <<>>
               /\ (id \notin DOMAIN movies \/ ~movies[id].active))
              => (Rejected(t) /\ th'[t].flash = FlashMovie)]_vars

AllPresent(l) == l.movie_id # <<>> /\ l.feedback # <<>> /\ l.rating_raw # <<>>

\* C8 as stated: of a logged-in request with all fields present, the feedback
\* length is checked first and the rating second.
C8_FeedbackCheckedFirst ==
    [][\A t \in Threads :
          (Received(t) /\ LoggedIn(t) /\ AllPresent(th'[t])) =>
              /\ Len(th'[t].feedback) < 10 => th'[t].flash = FlashFeedback
              /\ (Len(th'[t].feedback) >= 10 /\ ~IsRatingOneToFive(th'[t].rating_raw))
                    => th'[t].flash = FlashRating]_vars

\* C8 as amended: of a logged-in request the checks are made in the order all
\* fields present, rating an integer in 1..5, feedback length >= 10, movie
\* found; the failure reported is that of the first check violated, and a
\* form that passes all four goes on to the write of the review.
C8_RatingCheckedFirst ==
    [][\A t \in Threads :
          (Received(t) /\ LoggedIn(t)) =>
              IF ~AllPresent(th'[t]) THEN th'[t].flash = FlashRequired
              ELSE IF ~IsRatingOneToFive(th'[t].rating_raw)
              THEN th'[t].flash = FlashRating
              ELSE IF Len(th'[t].feedback) < 10 THEN th'[t].flash = FlashFeedback
              ELSE IF th'[t].movie_id \notin DOMAIN movies
              THEN th'[t].flash = FlashMovie
              ELSE th'[t].pc = "put" \/ th'[t].flash = FlashMovie]_vars

\* A form with a short feedback and a rating out of range was answered with
\* the rating's failure
C8_Witness ==
    \E t \in Threads :
        /\ th[t].pc = "done" /\ th[t].flash = FlashRating
        /\ th[t].feedback # <<>> /\ Len(th[t].feedback) < 10

Recomputing(t) == th[t].pc \in {"mquery", "mupdate", "uquery", "uupdate"}

\* C9: a submission whose write of the review fails ends there, reported as
\* failed, with no table changed; and a submission that is recomputing an
\* aggregate has its review stored.
C9_FailedWriteAborts ==
    [][\A t \in Threads :
          /\ Recomputing(t) => th[t].rid \in DOMAIN reviews
          /\ (th[t].pc = "put" /\ th'[t].pc # "put" /\ th[t].rid \notin DOMAIN reviews')
                => /\ th'[t].pc = "done" /\ th'[t].flash = FlashFailed
                   /\ UNCHANGED tables]_vars

C9_Witness ==
    \E t \in Threads :
        /\ th[t].pc = "done" /\ th[t].flash = FlashFailed
        /\ th[t].rid \notin DOMAIN reviews

\* C10: a review whose write has returned is stored unchanged in every later
\* state, whatever becomes of the updates of the statistics.
C10_ReviewDurable ==
    [][/\ \A r \in DOMAIN reviews : r \in DOMAIN reviews' /\ reviews'[r] = reviews[r]
       /\ \A t \in Threads :
             (Recomputing(t) \/ t \in SubmitThreads) =>
                 /\ th[t].rid \in DOMAIN reviews
                 /\ reviews[th[t].rid] = ReviewItem(th[t])]_vars

\* A submission has returned with its review stored although the update of
\* the movie's statistics failed
C10_Witness ==
    \E t \in Threads :
        /\ t \in SubmitThreads /\ th[t].mres = "False"
        /\ th[t].rid \in DOMAIN reviews

\* C11: a submission whose update of the movie's or of the user's statistics
\* failed does not end with the outcome of a plain success: it is told apart
\* from it (review saved, statistics may lag).
C11_StatsFailureReported ==
    \A t \in Threads :
        (/\ th[t].pc = "done" /\ th[t].op = "submit"
         /\ th[t].rid \in DOMAIN reviews
         /\ (th[t].mres = "False" \/ th[t].ures = "False"))
        => th[t].flash # FlashThanks

\* C17: reviews are append-only.  A step changes reviews_table only as the
\* put_item of one submission, which adds exactly one item under a review_id
\* that was not in use; every stored review is kept as it is.
C17_ReviewsAppendOnly ==
    [][/\ \A r \in DOMAIN reviews : r \in DOMAIN reviews' /\ reviews'[r] = reviews[r]
       /\ \A t \in Threads :
             (th[t].pc = "put" /\ th'[t].pc = "mquery") =>
                 /\ th[t].rid \notin DOMAIN reviews
                 /\ DOMAIN reviews' = DOMAIN reviews \cup {th[t].rid}
       /\ reviews' # reviews =>
             \E t \in Threads : th[t].pc = "put" /\ th'[t].pc = "mquery"]_vars

\* Two reviews of one user for one movie are stored under two identifiers
C17_Witness ==
    \E r1, r2 \in DOMAIN reviews :
        /\ r1 # r2
        /\ reviews[r1].movie_id = reviews[r2].movie_id
        /\ reviews[r1].user_email = reviews[r2].user_email

\* C20: no step lowers the total_reviews of a movie.
C20_TotalReviewsMonotone ==
    [][\A id \in DOMAIN movies :
          movies'[id].total_reviews >= movies[id].total_reviews]_vars

\* The handler of thread t takes this step
Acts(t) == th'[t] # th[t]

\* C18: an update of the statistics changes the three aggregate fields of the
\* record it targets and nothing else: no other field of that record, no
\* other movie or user record, no review.
C18_AggregateUpdateFrame ==
    [][\A t \in Threads :
          /\ (th[t].pc = "mupdate" /\ Acts(t)) =>
                /\ users' = users /\ reviews' = reviews
                /\ DOMAIN movies' = DOMAIN movies
                /\ \A id \in DOMAIN movies :
                      IF id = th[t].movie_id
                      THEN /\ movies'[id].title = movies[id].title
                           /\ movies'[id].genre = movies[id].genre
                           /\ movies'[id].active = movies[id].active
                      ELSE movies'[id] = movies[id]
          /\ (th[t].pc = "uupdate" /\ Acts(t)) =>
                /\ movies' = movies /\ reviews' = reviews
                /\ DOMAIN users' = DOMAIN users
                /\ \A e \in DOMAIN users :
                      IF e = th[t].email
                      THEN /\ users'[e].name = users[e].name
                           /\ users'[e].password_hash = users[e].password_hash
                           /\ users'[e].created_at = users[e].created_at
                           /\ users'[e].is_active = users[e].is_active
                      ELSE users'[e] = users[e]]_vars

\* Both updates of a submission of a@b.cc were written while the tables held
\* another user and another movie
C18_Witness ==
    \E t \in Threads :
        /\ t \in SubmitThreads /\ th[t].mres = "True" /\ th[t].ures = "True"
        /\ th[t].email = EmailA /\ users[EmailA].total_reviews > 0
        /\ EmailB \in DOMAIN users
        /\ \E id \in DOMAIN movies : id # th[t].movie_id

\* avg is the mean of the ratings of rs rounded to two places (hundredths):
\* it is within half a hundredth of the mean
RoundedMean(avg, rs) ==
    LET n == Cardinality(rs)
        d == avg * n - 100 * SumRatings(rs)
    IN  IF n = 0 THEN avg = 0
        ELSE 2 * (IF d < 0 THEN 0 - d ELSE d) <= n

\* C19: when a submission that overlapped no other returns with every call
\* of it succeeded, the movie's total_reviews is the number of the stored
\* reviews of that movie, the new one included, and its avg_rating is their
\* mean rounded to two places; likewise for the submitting user.
C19_SequentialSubmitExact ==
    \A t \in Threads :
        (t \in SubmitThreads /\ th[t].mres = "True" /\ th[t].ures = "True") =>
            LET mrs == QueryMovieIndex(th[t].movie_id)
                urs == QueryUserIndex(th[t].email)
            IN  /\ ReviewItem(th[t]) \in mrs
                /\ movies[th[t].movie_id].total_reviews = Cardinality(mrs)
                /\ RoundedMean(movies[th[t].movie_id].avg_rating, mrs)
                /\ users[th[t].email].total_reviews = Cardinality(urs)
                /\ RoundedMean(users[th[t].email].avg_rating, urs)

\* The example: ratings 5, 3, 4 are stored and a rating 2 is submitted
C19_Witness ==
    \E t \in Threads :
        /\ t \in SubmitThreads /\ th[t].mres = "True" /\ th[t].ures = "True"
        /\ th[t].movie_id = M001 /\ th[t].rating = 2
        /\ {<<r.review_id, r.rating>> : r \in QueryMovieIndex(M001)}
              = {<<0 - 1, 5>>, <<0 - 2, 3>>, <<0 - 3, 4>>, <<th[t].rid, 2>>}
        /\ movies[M001].total_reviews = 4
        /\ movies[M001].avg_rating = 350

\* The recommendation requests that were answered
RecommendThreads ==
    {t \in Threads : th[t].pc = "done" /\ th[t].op = "recommend"
                     /\ th[t].flash = "success"}

RECURSIVE LexLess(_, _)
\* a < b as Python compares strings (the movie ids differ in digits only)
LexLess(a, b) ==
    IF b = <<>> THEN FALSE
    ELSE IF a = <<>> THEN TRUE
    ELSE IF a[1] = b[1] THEN LexLess(Tail(a), Tail(b))
    ELSE DigitVal(a[1]) < DigitVal(b[1])

ActiveIds == {id \in DOMAIN movies : movies[id].active}

\* x comes before y: a higher avg_rating, or the same and the lower movie_id
RankedBefore(x, y) ==
    \/ movies[x].avg_rating > movies[y].avg_rating
    \/ movies[x].avg_rating = movies[y].avg_rating /\ LexLess(x, y)

Shown(t) == {th[t].recs[i] : i \in 1..Len(th[t].recs)}

ReviewedBy(email) == {r.movie_id : r \in QueryUserIndex(email)}

\* C12: for a user without reviews the answer is the active catalog by
\* avg_rating descending, ties by movie_id ascending, cut to limit, whatever
\* the order in which the scan returned the movies.
C12_TopRatedByIdOnTies ==
    \A t \in RecommendThreads :
        (th[t].failed = NoFailure /\ QueryUserIndex(th[t].email) = {}) =>
            LET recs == th[t].recs
            IN  /\ Len(recs) = IF th[t].limit < Cardinality(ActiveIds)
                                THEN th[t].limit ELSE Cardinality(ActiveIds)
                /\ Shown(t) \subseteq ActiveIds
                /\ \A i, j \in 1..Len(recs) : i < j => RankedBefore(recs[i], recs[j])
                /\ \A i \in 1..Len(recs) :
                      \A id \in ActiveIds \ Shown(t) : RankedBefore(recs[i], id)

\* C13: for a user with a review the answer holds no movie the user has
\* reviewed, no movie twice, active movies only, and at most limit movies.
C13_UnreviewedDistinctActive ==
    \A t \in RecommendThreads :
        QueryUserIndex(th[t].email) # {} =>
            LET recs == th[t].recs
            IN  /\ Shown(t) \cap ReviewedBy(th[t].email) = {}
                /\ \A i, j \in 1..Len(recs) : i # j => recs[i] # recs[j]
                /\ Shown(t) \subseteq ActiveIds
                /\ Len(recs) <= th[t].limit

\* The genres whose movies the user has rated 4.0 or more on average
FavoriteGenresOf(email) ==
    LET revs == QueryUserIndex(email)
        of_genre(g) == {r \in revs : movies[r.movie_id].genre = g}
    IN  {g \in {movies[r.movie_id].genre : r \in revs} :
            4 * Cardinality(of_genre(g)) <= SumRatings(of_genre(g))}

\* C14: for a user with a review, with a genre a favorite iff the user's
\* mean rating of its movies is 4.0 or more: the unreviewed movies of
\* favorite genres come before all others, another movie is shown only when
\* those are fewer than limit (and then all of them are shown), and within
\* each of the two groups avg_rating does not increase.
C14_FavoriteGenresFirst ==
    \A t \in RecommendThreads :
        QueryUserIndex(th[t].email) # {} =>
            LET recs == th[t].recs
                fav  == {id \in ActiveIds \ ReviewedBy(th[t].email) :
                            movies[id].genre \in FavoriteGenresOf(th[t].email)}
            IN  /\ \A i, j \in 1..Len(recs) :
                      i < j =>
                        /\ ~(recs[i] \notin fav /\ recs[j] \in fav)
                        /\ ((recs[i] \in fav) = (recs[j] \in fav)) =>
                              movies[recs[i]].avg_rating >= movies[recs[j]].avg_rating
                /\ Shown(t) \ fav # {} =>
                      Cardinality(fav) < th[t].limit /\ fav \subseteq Shown(t)
                /\ Len(recs) < th[t].limit => fav \subseteq Shown(t)

\* C15: a recommendation request changes no item of users_table,
\* movies_table or reviews_table.
C15_RecommendReadsOnly ==
    [][\A t \in Threads :
          (th[t].pc = "idle" /\ th'[t].op = "recommend") => UNCHANGED tables]_vars

\* A user with reviews was shown recommendations
C15_Witness ==
    \E t \in RecommendThreads :
        /\ th[t].recs # <<>>
        /\ QueryUserIndex(th[t].email) # {}
        /\ users[th[t].email].total_reviews > 0

\* C16: two answered requests for the recommendations of the same user with
\* the same limit, no submission between them, show the same movies in the
\* same order.
C16_SameAnswerTwice ==
    \A t1, t2 \in RecommendThreads :
        (th[t1].email = th[t2].email /\ th[t1].limit = th[t2].limit)
            => th[t1].recs = th[t2].recs

\* C21: registrations of one email that overlap: the put_item of a
\* registration replaces no stored user record (name, password hash,
\* created_at and aggregates are kept), and at most one of the registrations
\* in progress has returned success.
C21_OneRegistrationPerEmail ==
    [][/\ \A t \in Threads :
             (th[t].pc = "reg_put" /\ Acts(t)) =>
                 \A e \in DOMAIN users : e \in DOMAIN users' /\ users'[e] = users[e]
       /\ \A t1, t2 \in Threads :
             (/\ th'[t1].pc = "done" /\ th'[t1].flash = FlashRegistered
              /\ th'[t2].pc = "done" /\ th'[t2].flash = FlashRegistered)
                => t1 = t2]_vars

====
